---- MODULE Spec2Model ----
(***************************************************************************)
(* A model of the singly linked list of                                    *)
(* go/data_structures/linked_list/linked_list.go.                          *)
(*                                                                         *)
(* The heap is modelled explicitly: a node is an address in Nodes, NIL is  *)
(* the nil pointer, Data and Next are the two fields of every node.  Every *)
(* method is an operator over a list value [Head, Size, Data, Next] that   *)
(* follows the pointers exactly as the Go loops do, and an action that     *)
(* applies the operator to the one list the model owns.                    *)
(***************************************************************************)
EXTENDS Integers, Sequences, FiniteSets, TLC

\* Bounds of the model.
MaxLen == 4
MaxVal == 2

NIL == 0
Nodes == 1..MaxLen
Values == 1..MaxVal
Positions == -1..(MaxLen + 1)
Keys == Values \cup (-1..MaxLen)

\* The error results of the methods, by kind.
NoError == "nil"
InvalidPosition == "InvalidPosition"
EmptyList == "EmptyList"

VARIABLES HeadPtr, Size, Data, NextPtr, call

vars == <<HeadPtr, Size, Data, NextPtr, call>>

\* The list object as one value: the fields of LinkedList and of its nodes.
LL == [Head |-> HeadPtr, Size |-> Size, Data |-> Data, Next |-> NextPtr]

----------------------------------------------------------------------------
\* Heap helpers.

\* The addresses reachable from pointer p, in the order they are reached:
\* the nodes the garbage collector keeps.
RECURSIVE ReachFrom(_, _, _)
ReachFrom(nxt, p, acc) ==
    IF p = NIL \/ (\E i \in 1..Len(acc) : acc[i] = p) THEN acc
    ELSE ReachFrom(nxt, nxt[p], Append(acc, p))

Chain(l) == ReachFrom(l.Next, l.Head, <<>>)

Live(l) == LET chain == Chain(l) IN {chain[i] : i \in 1..Len(chain)}

\* &Node{...}: a fresh address, one that no live node occupies.
NewNode(l) ==
    LET free == Nodes \ Live(l)
    IN CHOOSE n \in free : \A m \in free : n <= m

\* Garbage collection.  Unreachable nodes are reclaimed and their cells
\* return to the zero value.  The program never compares or prints an
\* address, so the live nodes are also renamed in chain order (the node
\* reached i-th gets address i): two heaps that differ only in the addresses
\* of their nodes are one state.
Collect(l) ==
    LET chain == Chain(l)
        addr(p) == IF p = NIL THEN NIL
                   ELSE CHOOSE i \in 1..Len(chain) : chain[i] = p
    IN [Head |-> addr(l.Head),
        Size |-> l.Size,
        Data |-> [n \in Nodes |-> IF n <= Len(chain)
                                  THEN l.Data[chain[n]] ELSE 0],
        Next |-> [n \in Nodes |-> IF n <= Len(chain)
                                  THEN addr(l.Next[chain[n]]) ELSE NIL]]

----------------------------------------------------------------------------
\* The methods.

NewLinkedList ==
    [Head |-> NIL, Size |-> 0,
     Data |-> [n \in Nodes |-> 0], Next |-> [n \in Nodes |-> NIL]]

IsEmpty(l) == l.Head = NIL

Length(l) == l.Size

RECURSIVE ToSliceLoop(_, _, _)
ToSliceLoop(l, current, result) ==
    IF current # NIL
    THEN ToSliceLoop(l, l.Next[current], Append(result, l.Data[current]))
    ELSE result

ToSlice(l) == ToSliceLoop(l, l.Head, <<>>)

Prepend(l, data) ==
    LET newNode == NewNode(l)
    IN [l EXCEPT !.Data[newNode] = data,
                 !.Next[newNode] = l.Head,
                 !.Head = newNode,
                 !.Size = l.Size + 1]

\* for current.Next != nil { current = current.Next }
RECURSIVE AppendWalk(_, _)
AppendWalk(l, current) ==
    IF l.Next[current] # NIL THEN AppendWalk(l, l.Next[current]) ELSE current

\* Slip: the new node is linked before the head instead of after the tail.
AppendNodeAtFront(l, data) ==
    LET newNode == NewNode(l)
        l1 == [l EXCEPT !.Data[newNode] = data, !.Next[newNode] = l.Head]
        l2 == [l1 EXCEPT !.Head = newNode]
    IN [l2 EXCEPT !.Size = l2.Size + 1]

AppendNode(l, data) ==
    LET newNode == NewNode(l)
        l1 == [l EXCEPT !.Data[newNode] = data, !.Next[newNode] = NIL]
        l2 == IF IsEmpty(l1)
              THEN [l1 EXCEPT !.Head = newNode]
              ELSE [l1 EXCEPT !.Next[AppendWalk(l1, l1.Head)] = newNode]
    IN [l2 EXCEPT !.Size = l2.Size + 1]

\* for i := 0; i < position-1; i++ { current = current.Next }
RECURSIVE InsertAtWalk(_, _, _, _)
InsertAtWalk(l, current, i, position) ==
    IF i < position - 1
    THEN InsertAtWalk(l, l.Next[current], i + 1, position)
    ELSE current

\* Slip: the upper bound is tested with >=, so the end position is refused.
InsertAtNoEnd(l, data, position) ==
    IF position < 0 \/ position >= l.Size
    THEN [ll |-> l, err |-> InvalidPosition]
    ELSE IF position = 0
    THEN [ll |-> Prepend(l, data), err |-> NoError]
    ELSE LET newNode == NewNode(l)
             current == InsertAtWalk(l, l.Head, 0, position)
         IN [ll |-> [l EXCEPT !.Data[newNode] = data,
                              !.Next[newNode] = l.Next[current],
                              !.Next[current] = newNode,
                              !.Size = l.Size + 1],
             err |-> NoError]

InsertAt(l, data, position) ==
    IF position < 0 \/ position > l.Size
    THEN [ll |-> l, err |-> InvalidPosition]
    ELSE IF position = 0
    THEN [ll |-> Prepend(l, data), err |-> NoError]
    ELSE LET newNode == NewNode(l)
             current == InsertAtWalk(l, l.Head, 0, position)
         IN [ll |-> [l EXCEPT !.Data[newNode] = data,
                              !.Next[newNode] = l.Next[current],
                              !.Next[current] = newNode,
                              !.Size = l.Size + 1],
             err |-> NoError]

\* Slip: the count is decremented before the list is found empty.
DeleteFirstCountsFirst(l) ==
    IF IsEmpty(l)
    THEN [ll |-> [l EXCEPT !.Size = l.Size - 1], val |-> 0, err |-> EmptyList]
    ELSE [ll |-> [l EXCEPT !.Head = l.Next[l.Head], !.Size = l.Size - 1],
          val |-> l.Data[l.Head], err |-> NoError]

DeleteFirst(l) ==
    IF IsEmpty(l)
    THEN [ll |-> l, val |-> 0, err |-> EmptyList]
    ELSE [ll |-> [l EXCEPT !.Head = l.Next[l.Head], !.Size = l.Size - 1],
          val |-> l.Data[l.Head], err |-> NoError]

\* for current.Next.Next != nil { current = current.Next }
RECURSIVE DeleteLastWalk(_, _)
DeleteLastWalk(l, current) ==
    IF l.Next[l.Next[current]] # NIL
    THEN DeleteLastWalk(l, l.Next[current])
    ELSE current

DeleteLast(l) ==
    IF IsEmpty(l)
    THEN [ll |-> l, val |-> 0, err |-> EmptyList]
    ELSE IF l.Next[l.Head] = NIL
    THEN [ll |-> [l EXCEPT !.Head = NIL, !.Size = l.Size - 1],
          val |-> l.Data[l.Head], err |-> NoError]
    ELSE LET current == DeleteLastWalk(l, l.Head)
         IN [ll |-> [l EXCEPT !.Next[current] = NIL, !.Size = l.Size - 1],
             val |-> l.Data[l.Next[current]], err |-> NoError]

\* for i := 0; i < position-1; i++ { current = current.Next }
RECURSIVE DeleteAtWalk(_, _, _, _)
DeleteAtWalk(l, current, i, position) ==
    IF i < position - 1
    THEN DeleteAtWalk(l, l.Next[current], i + 1, position)
    ELSE current

\* Slip: the value returned is that of the predecessor, not of the node removed.
DeleteAtReturnsPrev(l, position) ==
    IF position < 0 \/ position >= l.Size
    THEN [ll |-> l, val |-> 0, err |-> InvalidPosition]
    ELSE IF position = 0
    THEN DeleteFirst(l)
    ELSE LET current == DeleteAtWalk(l, l.Head, 0, position)
         IN [ll |-> [l EXCEPT !.Next[current] = l.Next[l.Next[current]],
                              !.Size = l.Size - 1],
             val |-> l.Data[current], err |-> NoError]

DeleteAt(l, position) ==
    IF position < 0 \/ position >= l.Size
    THEN [ll |-> l, val |-> 0, err |-> InvalidPosition]
    ELSE IF position = 0
    THEN DeleteFirst(l)
    ELSE LET current == DeleteAtWalk(l, l.Head, 0, position)
         IN [ll |-> [l EXCEPT !.Next[current] = l.Next[l.Next[current]],
                              !.Size = l.Size - 1],
             val |-> l.Data[l.Next[current]], err |-> NoError]

\* for current.Next != nil { if current.Next.Data == value {...} ... }
RECURSIVE DeleteByValueLoop(_, _, _)
DeleteByValueLoop(l, current, value) ==
    IF l.Next[current] # NIL
    THEN IF l.Data[l.Next[current]] = value
         THEN [ll |-> [l EXCEPT !.Next[current] = l.Next[l.Next[current]],
                                !.Size = l.Size - 1],
               flag |-> TRUE]
         ELSE DeleteByValueLoop(l, l.Next[current], value)
    ELSE [ll |-> l, flag |-> FALSE]

\* Slip: the head's value is never compared, only the values after it.
DeleteByValueSkipsHead(l, value) ==
    IF IsEmpty(l)
    THEN [ll |-> l, flag |-> FALSE]
    ELSE DeleteByValueLoop(l, l.Head, value)

DeleteByValue(l, value) ==
    IF IsEmpty(l)
    THEN [ll |-> l, flag |-> FALSE]
    ELSE IF l.Data[l.Head] = value
    THEN [ll |-> DeleteFirst(l).ll, flag |-> TRUE]
    ELSE DeleteByValueLoop(l, l.Head, value)

RECURSIVE SearchLoop(_, _, _, _)
SearchLoop(l, current, index, value) ==
    IF current # NIL
    THEN IF l.Data[current] = value
         THEN index
         ELSE SearchLoop(l, l.Next[current], index + 1, value)
    ELSE -1

Search(l, value) == SearchLoop(l, l.Head, 0, value)

\* for i := 0; i < position; i++ { current = current.Next }
RECURSIVE GetWalk(_, _, _, _)
GetWalk(l, current, i, position) ==
    IF i < position
    THEN GetWalk(l, l.Next[current], i + 1, position)
    ELSE current

\* Slip: the lower bound is not tested, only emptiness and the upper bound.
GetNoLowerBound(l, position) ==
    IF IsEmpty(l) \/ position >= l.Size
    THEN [val |-> 0, err |-> InvalidPosition]
    ELSE [val |-> l.Data[GetWalk(l, l.Head, 0, position)], err |-> NoError]

Get(l, position) ==
    IF position < 0 \/ position >= l.Size
    THEN [val |-> 0, err |-> InvalidPosition]
    ELSE [val |-> l.Data[GetWalk(l, l.Head, 0, position)], err |-> NoError]

\* Slip: the new head is taken from current (nil at the end), not from prev.
RECURSIVE ReverseLoopHeadCurrent(_, _, _)
ReverseLoopHeadCurrent(l, prev, current) ==
    IF current # NIL
    THEN ReverseLoopHeadCurrent([l EXCEPT !.Next[current] = prev],
                                current, l.Next[current])
    ELSE [l EXCEPT !.Head = current]

RECURSIVE ReverseLoop(_, _, _)
ReverseLoop(l, prev, current) ==
    IF current # NIL
    THEN ReverseLoop([l EXCEPT !.Next[current] = prev], current, l.Next[current])
    ELSE [l EXCEPT !.Head = prev]

\* Slip: prev starts at the head instead of nil, so the old head is never
\* given a nil successor.
ReversePrevHead(l) == ReverseLoop(l, l.Head, l.Head)

Reverse(l) == ReverseLoop(l, NIL, l.Head)

\* Slip: the loop stops one step early (tests fast.Next.Next), which is the
\* "earlier middle" convention.
RECURSIVE FindMiddleLoopEarly(_, _, _)
FindMiddleLoopEarly(l, slow, fast) ==
    IF l.Next[fast] # NIL /\ l.Next[l.Next[fast]] # NIL
    THEN FindMiddleLoopEarly(l, l.Next[slow], l.Next[l.Next[fast]])
    ELSE slow

RECURSIVE FindMiddleLoop(_, _, _)
FindMiddleLoop(l, slow, fast) ==
    IF fast # NIL /\ l.Next[fast] # NIL
    THEN FindMiddleLoop(l, l.Next[slow], l.Next[l.Next[fast]])
    ELSE slow

\* Slip: the fast cursor starts one node ahead of the slow one.
FindMiddleFastAhead(l) ==
    IF IsEmpty(l)
    THEN [val |-> 0, err |-> EmptyList]
    ELSE [val |-> l.Data[FindMiddleLoop(l, l.Head, l.Next[l.Head])],
          err |-> NoError]

FindMiddle(l) ==
    IF IsEmpty(l)
    THEN [val |-> 0, err |-> EmptyList]
    ELSE [val |-> l.Data[FindMiddleLoop(l, l.Head, l.Head)], err |-> NoError]

RECURSIVE HasCycleLoop(_, _, _)
HasCycleLoop(l, slow, fast) ==
    IF fast # NIL /\ l.Next[fast] # NIL
    THEN IF l.Next[slow] = l.Next[l.Next[fast]]
         THEN TRUE
         ELSE HasCycleLoop(l, l.Next[slow], l.Next[l.Next[fast]])
    ELSE FALSE

HasCycle(l) ==
    IF IsEmpty(l) THEN FALSE ELSE HasCycleLoop(l, l.Head, l.Head)

\* Slip: a node is spliced out without decrementing the count.
RECURSIVE RemoveDuplicatesLoopNoCount(_, _, _)
RemoveDuplicatesLoopNoCount(l, seen, current) ==
    IF l.Next[current] # NIL
    THEN IF l.Data[l.Next[current]] \in seen
         THEN RemoveDuplicatesLoopNoCount(
                  [l EXCEPT !.Next[current] = l.Next[l.Next[current]]],
                  seen, current)
         ELSE RemoveDuplicatesLoopNoCount(
                  l, seen \cup {l.Data[l.Next[current]]}, l.Next[current])
    ELSE l

\* Slip: a node is compared with its predecessor only, as for a sorted list.
RECURSIVE RemoveDuplicatesLoopAdjacent(_, _, _)
RemoveDuplicatesLoopAdjacent(l, seen, current) ==
    IF l.Next[current] # NIL
    THEN IF l.Data[l.Next[current]] = l.Data[current]
         THEN RemoveDuplicatesLoopAdjacent(
                  [l EXCEPT !.Next[current] = l.Next[l.Next[current]],
                            !.Size = l.Size - 1],
                  seen, current)
         ELSE RemoveDuplicatesLoopAdjacent(
                  l, seen \cup {l.Data[l.Next[current]]}, l.Next[current])
    ELSE l

RECURSIVE RemoveDuplicatesLoop(_, _, _)
RemoveDuplicatesLoop(l, seen, current) ==
    IF l.Next[current] # NIL
    THEN IF l.Data[l.Next[current]] \in seen
         THEN RemoveDuplicatesLoop(
                  [l EXCEPT !.Next[current] = l.Next[l.Next[current]],
                            !.Size = l.Size - 1],
                  seen, current)
         ELSE RemoveDuplicatesLoop(
                  l, seen \cup {l.Data[l.Next[current]]}, l.Next[current])
    ELSE l

RemoveDuplicates(l) ==
    IF IsEmpty(l)
    THEN l
    ELSE RemoveDuplicatesLoop(l, {l.Data[l.Head]}, l.Head)

Clear(l) == [l EXCEPT !.Head = NIL, !.Size = 0]

----------------------------------------------------------------------------
\* The record of the latest call: the method, its arguments, its results,
\* and the list's values and Size as they were when the call was made.
\* onlyAppends tells that the list has been built by Append calls alone since
\* NewLinkedList (calls that only read the list aside), and appended is then
\* the sequence of the values appended.
ReadOnlyCalls ==
    {"Length", "IsEmpty", "ToSlice", "Search", "Get", "FindMiddle", "HasCycle"}

Called(op, data, position, val, flag, slice, err) ==
    LET only == call.onlyAppends /\ op \in ReadOnlyCalls \cup {"Append"}
    IN [op |-> op, data |-> data, position |-> position,
        val |-> val, flag |-> flag, slice |-> slice, err |-> err,
        preSeq |-> ToSlice(LL), preSize |-> Size,
        onlyAppends |-> only,
        appended |-> IF ~only THEN <<>>
                     ELSE IF op = "Append" THEN Append(call.appended, data)
                     ELSE call.appended]

Commit(l) ==
    LET c == Collect(l)
    IN /\ HeadPtr' = c.Head
       /\ Size' = c.Size
       /\ Data' = c.Data
       /\ NextPtr' = c.Next

\* Room for one more node in the model's heap.
HasRoom == Cardinality(Live(LL)) < MaxLen

Init ==
    /\ HeadPtr = NewLinkedList.Head
    /\ Size = NewLinkedList.Size
    /\ Data = NewLinkedList.Data
    /\ NextPtr = NewLinkedList.Next
    /\ call = [op |-> "NewLinkedList", data |-> 0, position |-> 0,
               val |-> 0, flag |-> FALSE, slice |-> <<>>, err |-> NoError,
               preSeq |-> <<>>, preSize |-> 0,
               onlyAppends |-> TRUE, appended |-> <<>>]

CallPrepend ==
    \E d \in Values :
        /\ HasRoom
        /\ Commit(Prepend(LL, d))
        /\ call' = Called("Prepend", d, 0, 0, FALSE, <<>>, NoError)

CallAppend ==
    \E d \in Values :
        /\ HasRoom
        /\ Commit(AppendNode(LL, d))
        /\ call' = Called("Append", d, 0, 0, FALSE, <<>>, NoError)

CallInsertAt ==
    \E d \in Values, p \in Positions :
        /\ (0 <= p /\ p <= Size) => HasRoom
        /\ LET r == InsertAt(LL, d, p)
           IN /\ Commit(r.ll)
              /\ call' = Called("InsertAt", d, p, 0, FALSE, <<>>, r.err)

CallDeleteFirst ==
    LET r == DeleteFirst(LL)
    IN /\ Commit(r.ll)
       /\ call' = Called("DeleteFirst", 0, 0, r.val, FALSE, <<>>, r.err)

CallDeleteLast ==
    LET r == DeleteLast(LL)
    IN /\ Commit(r.ll)
       /\ call' = Called("DeleteLast", 0, 0, r.val, FALSE, <<>>, r.err)

CallDeleteAt ==
    \E p \in Positions :
        LET r == DeleteAt(LL, p)
        IN /\ Commit(r.ll)
           /\ call' = Called("DeleteAt", 0, p, r.val, FALSE, <<>>, r.err)

CallDeleteByValue ==
    \E v \in Keys :
        LET r == DeleteByValue(LL, v)
        IN /\ Commit(r.ll)
           /\ call' = Called("DeleteByValue", v, 0, 0, r.flag, <<>>, NoError)

CallSearch ==
    \E v \in Keys :
        /\ call' = Called("Search", v, 0, Search(LL, v), FALSE, <<>>, NoError)
        /\ UNCHANGED <<HeadPtr, Size, Data, NextPtr>>

CallGet ==
    \E p \in Positions :
        LET r == Get(LL, p)
        IN /\ call' = Called("Get", 0, p, r.val, FALSE, <<>>, r.err)
           /\ UNCHANGED <<HeadPtr, Size, Data, NextPtr>>

CallReverse ==
    /\ Commit(Reverse(LL))
    /\ call' = Called("Reverse", 0, 0, 0, FALSE, <<>>, NoError)

CallFindMiddle ==
    LET r == FindMiddle(LL)
    IN /\ call' = Called("FindMiddle", 0, 0, r.val, FALSE, <<>>, r.err)
       /\ UNCHANGED <<HeadPtr, Size, Data, NextPtr>>

CallHasCycle ==
    /\ call' = Called("HasCycle", 0, 0, 0, HasCycle(LL), <<>>, NoError)
    /\ UNCHANGED <<HeadPtr, Size, Data, NextPtr>>

CallRemoveDuplicates ==
    /\ Commit(RemoveDuplicates(LL))
    /\ call' = Called("RemoveDuplicates", 0, 0, 0, FALSE, <<>>, NoError)

CallToSlice ==
    /\ call' = Called("ToSlice", 0, 0, 0, FALSE, ToSlice(LL), NoError)
    /\ UNCHANGED <<HeadPtr, Size, Data, NextPtr>>

CallLength ==
    /\ call' = Called("Length", 0, 0, Length(LL), FALSE, <<>>, NoError)
    /\ UNCHANGED <<HeadPtr, Size, Data, NextPtr>>

CallIsEmpty ==
    /\ call' = Called("IsEmpty", 0, 0, 0, IsEmpty(LL), <<>>, NoError)
    /\ UNCHANGED <<HeadPtr, Size, Data, NextPtr>>

CallClear ==
    /\ Commit(Clear(LL))
    /\ call' = Called("Clear", 0, 0, 0, FALSE, <<>>, NoError)

Next ==
    \/ CallPrepend
    \/ CallAppend
    \/ CallInsertAt
    \/ CallDeleteFirst
    \/ CallDeleteLast
    \/ CallDeleteAt
    \/ CallDeleteByValue
    \/ CallSearch
    \/ CallGet
    \/ CallReverse
    \/ CallFindMiddle
    \/ CallHasCycle
    \/ CallRemoveDuplicates
    \/ CallToSlice
    \/ CallLength
    \/ CallIsEmpty
    \/ CallClear

Spec == Init /\ [][Next]_vars
----------------------------------------------------------------------------
(***************************************************************************)
(* The array routines of go/algorithms/sorting/merge_sort.go.  A Go slice  *)
(* is a sequence; the Go index i is the position i + 1 of the sequence.    *)
(* A routine that writes into its slice argument is an operator that       *)
(* returns the contents of that slice after the call.                      *)
(***************************************************************************)

\* Bounds of the arrays the routines are applied to.
MaxArrLen == 5
MaxElem == 2

Elems == 0..MaxElem
Arrays == UNION {[1..n -> Elems] : n \in 0..MaxArrLen}

\* for i < leftSize && j < rightSize { ... }
RECURSIVE mergeLoop(_, _, _, _, _, _)
mergeLoop(arr, leftArr, rightArr, i, j, k) ==
    IF i < Len(leftArr) /\ j < Len(rightArr)
    THEN IF leftArr[i + 1] <= rightArr[j + 1]
         THEN mergeLoop([arr EXCEPT ![k + 1] = leftArr[i + 1]],
                        leftArr, rightArr, i + 1, j, k + 1)
         ELSE mergeLoop([arr EXCEPT ![k + 1] = rightArr[j + 1]],
                        leftArr, rightArr, i, j + 1, k + 1)
    ELSE [arr |-> arr, i |-> i, j |-> j, k |-> k]

\* for i < leftSize { arr[k] = leftArr[i]; i++; k++ }
RECURSIVE mergeLeftRest(_, _, _, _)
mergeLeftRest(arr, leftArr, i, k) ==
    IF i < Len(leftArr)
    THEN mergeLeftRest([arr EXCEPT ![k + 1] = leftArr[i + 1]],
                       leftArr, i + 1, k + 1)
    ELSE [arr |-> arr, k |-> k]

\* for j < rightSize { arr[k] = rightArr[j]; j++; k++ }
RECURSIVE mergeRightRest(_, _, _, _)
mergeRightRest(arr, rightArr, j, k) ==
    IF j < Len(rightArr)
    THEN mergeRightRest([arr EXCEPT ![k + 1] = rightArr[j + 1]],
                        rightArr, j + 1, k + 1)
    ELSE [arr |-> arr, k |-> k]

merge(arr, left, mid, right) ==
    LET leftArr == SubSeq(arr, left + 1, mid + 1)
        rightArr == SubSeq(arr, mid + 2, right + 1)
        m == mergeLoop(arr, leftArr, rightArr, 0, 0, left)
        l == mergeLeftRest(m.arr, leftArr, m.i, m.k)
        r == mergeRightRest(l.arr, rightArr, m.j, l.k)
    IN r.arr

RECURSIVE mergeSortHelper(_, _, _)
mergeSortHelper(arr, left, right) ==
    IF left < right
    THEN LET mid == left + ((right - left) \div 2)
             a1 == mergeSortHelper(arr, left, mid)
             a2 == mergeSortHelper(a1, mid + 1, right)
         IN merge(a2, left, mid, right)
    ELSE arr

\* arr: the contents of the argument slice after the call; result: the
\* contents of the slice returned; same: the slice returned is the argument
\* slice itself (line 31) and not the one made at line 35.
MergeSort(arr) ==
    IF Len(arr) <= 1
    THEN [arr |-> arr, result |-> arr, same |-> TRUE]
    ELSE [arr |-> arr,
          result |-> mergeSortHelper(arr, 0, Len(arr) - 1),
          same |-> FALSE]

\* Slip: equal elements are taken from the right run and counted.
RECURSIVE mergeAndCountLoopStrict(_, _, _, _, _, _, _)
mergeAndCountLoopStrict(arr, leftArr, rightArr, i, j, k, inversions) ==
    IF i < Len(leftArr) /\ j < Len(rightArr)
    THEN IF leftArr[i + 1] < rightArr[j + 1]
         THEN mergeAndCountLoopStrict(
                  [arr EXCEPT ![k + 1] = leftArr[i + 1]],
                  leftArr, rightArr, i + 1, j, k + 1, inversions)
         ELSE mergeAndCountLoopStrict(
                  [arr EXCEPT ![k + 1] = rightArr[j + 1]],
                  leftArr, rightArr, i, j + 1, k + 1,
                  inversions + (Len(leftArr) - i))
    ELSE [arr |-> arr, i |-> i, j |-> j, k |-> k, inversions |-> inversions]

\* for i < len(leftArr) && j < len(rightArr) { ... }
RECURSIVE mergeAndCountLoop(_, _, _, _, _, _, _)
mergeAndCountLoop(arr, leftArr, rightArr, i, j, k, inversions) ==
    IF i < Len(leftArr) /\ j < Len(rightArr)
    THEN IF leftArr[i + 1] <= rightArr[j + 1]
         THEN mergeAndCountLoop(
                  [arr EXCEPT ![k + 1] = leftArr[i + 1]],
                  leftArr, rightArr, i + 1, j, k + 1, inversions)
         ELSE mergeAndCountLoop(
                  [arr EXCEPT ![k + 1] = rightArr[j + 1]],
                  leftArr, rightArr, i, j + 1, k + 1,
                  inversions + (Len(leftArr) - i))
    ELSE [arr |-> arr, i |-> i, j |-> j, k |-> k, inversions |-> inversions]

mergeAndCount(arr, left, mid, right) ==
    LET leftArr == SubSeq(arr, left + 1, mid + 1)
        rightArr == SubSeq(arr, mid + 2, right + 1)
        m == mergeAndCountLoop(arr, leftArr, rightArr, 0, 0, left, 0)
        l == mergeLeftRest(m.arr, leftArr, m.i, m.k)
        r == mergeRightRest(l.arr, rightArr, m.j, l.k)
    IN [arr |-> r.arr, inversions |-> m.inversions]

RECURSIVE countInversionsHelper(_, _, _)
countInversionsHelper(arr, left, right) ==
    IF left < right
    THEN LET mid == left + ((right - left) \div 2)
             r1 == countInversionsHelper(arr, left, mid)
             r2 == countInversionsHelper(r1.arr, mid + 1, right)
             r3 == mergeAndCount(r2.arr, left, mid, right)
         IN [arr |-> r3.arr,
             inversions |-> r1.inversions + r2.inversions + r3.inversions]
    ELSE [arr |-> arr, inversions |-> 0]

CountInversions(arr) ==
    LET r == countInversionsHelper(arr, 0, Len(arr) - 1)
    IN [arr |-> arr, result |-> r.arr, inversions |-> r.inversions,
        same |-> FALSE]

\* The list plays no part in the array routines: it stays the new list.
ListUntouched ==
    /\ HeadPtr = NewLinkedList.Head
    /\ Size = NewLinkedList.Size
    /\ Data = NewLinkedList.Data
    /\ NextPtr = NewLinkedList.Next

InitSort ==
    /\ ListUntouched
    /\ \E a \in Arrays : call = [op |-> "input", arr |-> a]

CallMergeSort ==
    /\ call.op = "input"
    /\ LET r == MergeSort(call.arr)
       IN call' = [op |-> "MergeSort", arr |-> call.arr,
                   arrAfter |-> r.arr, result |-> r.result, same |-> r.same]
    /\ UNCHANGED <<HeadPtr, Size, Data, NextPtr>>

CallCountInversions ==
    /\ call.op = "input"
    /\ LET r == CountInversions(call.arr)
       IN call' = [op |-> "CountInversions", arr |-> call.arr,
                   arrAfter |-> r.arr, result |-> r.result, same |-> r.same,
                   inversions |-> r.inversions]
    /\ UNCHANGED <<HeadPtr, Size, Data, NextPtr>>

NextSort ==
    \/ CallMergeSort
    \/ CallCountInversions

SpecSort == InitSort /\ [][NextSort]_vars

----------------------------------------------------------------------------
(***************************************************************************)
(* The search routines of the binary search file.  The two binary searches *)
(* also give the Go indices at which they read arr, in the order read.     *)
(***************************************************************************)

Targets == -1..(MaxElem + 1)

\* Slip: the loop runs while left < right, so a range of one is not looked at.
RECURSIVE BinarySearchIterativeLoopStrict(_, _, _, _, _)
BinarySearchIterativeLoopStrict(arr, target, left, right, reads) ==
    IF left < right
    THEN LET mid == left + ((right - left) \div 2)
         IN IF arr[mid + 1] = target
            THEN [index |-> mid, reads |-> Append(reads, mid)]
            ELSE IF arr[mid + 1] < target
            THEN BinarySearchIterativeLoopStrict(
                     arr, target, mid + 1, right, Append(reads, mid))
            ELSE BinarySearchIterativeLoopStrict(
                     arr, target, left, mid - 1, Append(reads, mid))
    ELSE [index |-> -1, reads |-> reads]

\* for left <= right { ... }
RECURSIVE BinarySearchIterativeLoop(_, _, _, _, _)
BinarySearchIterativeLoop(arr, target, left, right, reads) ==
    IF left <= right
    THEN LET mid == left + ((right - left) \div 2)
         IN IF arr[mid + 1] = target
            THEN [index |-> mid, reads |-> Append(reads, mid)]
            ELSE IF arr[mid + 1] < target
            THEN BinarySearchIterativeLoop(
                     arr, target, mid + 1, right, Append(reads, mid))
            ELSE BinarySearchIterativeLoop(
                     arr, target, left, mid - 1, Append(reads, mid))
    ELSE [index |-> -1, reads |-> reads]

BinarySearchIterative(arr, target) ==
    BinarySearchIterativeLoop(arr, target, 0, Len(arr) - 1, <<>>)

RECURSIVE binarySearchRecursiveHelper(_, _, _, _, _)
binarySearchRecursiveHelper(arr, target, left, right, reads) ==
    IF left > right
    THEN [index |-> -1, reads |-> reads]
    ELSE LET mid == left + ((right - left) \div 2)
         IN IF arr[mid + 1] = target
            THEN [index |-> mid, reads |-> Append(reads, mid)]
            ELSE IF arr[mid + 1] < target
            THEN binarySearchRecursiveHelper(
                     arr, target, mid + 1, right, Append(reads, mid))
            ELSE binarySearchRecursiveHelper(
                     arr, target, left, mid - 1, Append(reads, mid))

BinarySearchRecursive(arr, target) ==
    binarySearchRecursiveHelper(arr, target, 0, Len(arr) - 1, <<>>)

\* for left <= right { ... }
RECURSIVE SearchInRotatedArrayLoop(_, _, _, _)
SearchInRotatedArrayLoop(arr, target, left, right) ==
    IF left <= right
    THEN LET mid == left + ((right - left) \div 2)
         IN IF arr[mid + 1] = target
            THEN mid
            ELSE IF arr[left + 1] <= arr[mid + 1]
            THEN IF target >= arr[left + 1] /\ target < arr[mid + 1]
                 THEN SearchInRotatedArrayLoop(arr, target, left, mid - 1)
                 ELSE SearchInRotatedArrayLoop(arr, target, mid + 1, right)
            ELSE IF target > arr[mid + 1] /\ target <= arr[right + 1]
                 THEN SearchInRotatedArrayLoop(arr, target, mid + 1, right)
                 ELSE SearchInRotatedArrayLoop(arr, target, left, mid - 1)
    ELSE -1

SearchInRotatedArray(arr, target) ==
    SearchInRotatedArrayLoop(arr, target, 0, Len(arr) - 1)

InitSearch ==
    /\ ListUntouched
    /\ \E a \in Arrays, t \in Targets :
           call = [op |-> "input", arr |-> a, target |-> t]

CallBinarySearchIterative ==
    /\ call.op = "input"
    /\ LET r == BinarySearchIterative(call.arr, call.target)
       IN call' = [op |-> "BinarySearchIterative", arr |-> call.arr,
                   target |-> call.target,
                   index |-> r.index, reads |-> r.reads]
    /\ UNCHANGED <<HeadPtr, Size, Data, NextPtr>>

CallBinarySearchRecursive ==
    /\ call.op = "input"
    /\ LET r == BinarySearchRecursive(call.arr, call.target)
       IN call' = [op |-> "BinarySearchRecursive", arr |-> call.arr,
                   target |-> call.target,
                   index |-> r.index, reads |-> r.reads]
    /\ UNCHANGED <<HeadPtr, Size, Data, NextPtr>>

CallSearchInRotatedArray ==
    /\ call.op = "input"
    /\ call' = [op |-> "SearchInRotatedArray", arr |-> call.arr,
                target |-> call.target,
                index |-> SearchInRotatedArray(call.arr, call.target)]
    /\ UNCHANGED <<HeadPtr, Size, Data, NextPtr>>

NextSearch ==
    \/ CallBinarySearchIterative
    \/ CallBinarySearchRecursive
    \/ CallSearchInRotatedArray

SpecSearch == InitSearch /\ [][NextSearch]_vars

----------------------------------------------------------------------------
\* Sequences the properties are stated with.

RECURSIVE Rev(_)
Rev(s) == IF s = <<>> THEN <<>> ELSE Append(Rev(Tail(s)), s[1])

\* s without the element at 0-based index p.
WithoutIndex(s, p) == SubSeq(s, 1, p) \o SubSeq(s, p + 2, Len(s))

\* s with v put at 0-based index p.
WithInserted(s, v, p) == SubSeq(s, 1, p) \o <<v>> \o SubSeq(s, p + 1, Len(s))

\* The first occurrence of every value of s, in the order of s.
FirstOccurrences(s) ==
    LET F[i \in 0..Len(s)] ==
            IF i = 0 THEN <<>>
            ELSE IF \E j \in 1..(i - 1) : s[j] = s[i]
                 THEN F[i - 1]
                 ELSE Append(F[i - 1], s[i])
    IN F[Len(s)]

ValuesOf(s) == {s[i] : i \in 1..Len(s)}

\* The 0-based index of the first occurrence of v in s, or -1.
FirstIndexOf(s, v) ==
    IF v \in ValuesOf(s)
    THEN (CHOOSE i \in 1..Len(s) :
              s[i] = v /\ \A j \in 1..(i - 1) : s[j] # v) - 1
    ELSE -1

\* The Next chain from the head ends in nil.
Acyclic ==
    \/ HeadPtr = NIL
    \/ NextPtr[Chain(LL)[Len(Chain(LL))]] = NIL

----------------------------------------------------------------------------
\* C1: in every reachable state Size is the number of nodes reachable from
\* Head along Next, and Head is nil exactly when Size is 0.
SizeCountsNodes ==
    /\ Size = Len(Chain(LL))
    /\ (HeadPtr = NIL) <=> (Size = 0)

\* A list of at least two nodes left by a RemoveDuplicates that removed one.
SizeCountsNodesWitness ==
    /\ call.op = "RemoveDuplicates"
    /\ Size < call.preSize
    /\ Size >= 2

\* C2: a call of InsertAt, DeleteFirst, DeleteLast, DeleteAt, Get or
\* FindMiddle that returns an error leaves the values and Size as they were.
FailedCallMutatesNothing ==
    (/\ call.op \in {"InsertAt", "DeleteFirst", "DeleteLast",
                     "DeleteAt", "Get", "FindMiddle"}
     /\ call.err # NoError)
    => /\ ToSlice(LL) = call.preSeq
       /\ Size = call.preSize

\* A DeleteFirst that failed on the empty list.
FailedCallWitness ==
    /\ call.op = "DeleteFirst"
    /\ call.err = EmptyList
    /\ call.preSize = 0

\* C3 as stated: FindMiddle on a non-empty list of count elements returns the
\* value at 0-based index floor((count-1)/2) and leaves the list as it was.
FindMiddleIsLowerMiddle ==
    (call.op = "FindMiddle" /\ call.preSize > 0)
    => /\ call.val = call.preSeq[((call.preSize - 1) \div 2) + 1]
       /\ ToSlice(LL) = call.preSeq
       /\ Size = call.preSize

\* C3 amended: FindMiddle on a non-empty list of count elements returns the
\* value at 0-based index floor(count/2) and leaves the list as it was.
FindMiddleIsUpperMiddle ==
    (call.op = "FindMiddle" /\ call.preSize > 0)
    => /\ call.val = call.preSeq[(call.preSize \div 2) + 1]
       /\ ToSlice(LL) = call.preSeq
       /\ Size = call.preSize

\* FindMiddle on a list of even count whose two middle values differ.
FindMiddleUpperWitness ==
    /\ call.op = "FindMiddle"
    /\ call.preSize >= 2
    /\ call.preSize % 2 = 0
    /\ call.preSeq[call.preSize \div 2] # call.preSeq[(call.preSize \div 2) + 1]
    /\ call.val = call.preSeq[(call.preSize \div 2) + 1]

\* C4: FindMiddle returns the single middle element of a list of odd count,
\* the later of the two middle elements of a list of even count, and an
\* error on the empty list.
FindMiddleByParity ==
    call.op = "FindMiddle"
    => LET n == call.preSize
           s == call.preSeq
       IN IF n = 0
          THEN call.err = EmptyList
          ELSE /\ call.err = NoError
               /\ (n % 2 = 1) => call.val = s[(n + 1) \div 2]
               /\ (n % 2 = 0) => call.val = s[(n \div 2) + 1]

\* FindMiddle on a list of three nodes whose middle value differs from both
\* of its neighbours.
FindMiddleParityWitness ==
    /\ call.op = "FindMiddle"
    /\ call.preSize = 3
    /\ call.preSeq[2] # call.preSeq[1]
    /\ call.preSeq[2] # call.preSeq[3]
    /\ call.val = call.preSeq[2]

\* C5: Reverse replaces the values by their exact reverse and keeps Size;
\* applying Reverse twice gives back the sequence of values.
ReverseReverses ==
    /\ call.op = "Reverse"
       => /\ ToSlice(LL) = Rev(call.preSeq)
          /\ Size = call.preSize
    /\ ToSlice(Reverse(Reverse(LL))) = ToSlice(LL)
    /\ Reverse(Reverse(LL)).Size = Size

\* A Reverse that changed the order of a list of at least three nodes.
ReverseWitness ==
    /\ call.op = "Reverse"
    /\ Size >= 3
    /\ ToSlice(LL) # call.preSeq

\* C6: after RemoveDuplicates the list holds every value that was present
\* exactly once, in the order of first occurrence, and Size is the number of
\* distinct values.
RemoveDuplicatesKeepsFirsts ==
    call.op = "RemoveDuplicates"
    => /\ ToSlice(LL) = FirstOccurrences(call.preSeq)
       /\ Size = Cardinality(ValuesOf(call.preSeq))

\* A RemoveDuplicates that removed a duplicate not adjacent to its first
\* occurrence.
RemoveDuplicatesWitness ==
    /\ call.op = "RemoveDuplicates"
    /\ Size >= 2
    /\ \E i, j \in 1..Len(call.preSeq) :
           /\ i + 1 < j
           /\ call.preSeq[i] = call.preSeq[j]
           /\ call.preSeq[i + 1] # call.preSeq[i]

\* C7: the Next chain from Head is acyclic in every reachable state, and
\* HasCycle returns false.
NeverCyclic ==
    /\ Acyclic
    /\ ~HasCycle(LL)
    /\ call.op = "HasCycle" => call.flag = FALSE

\* HasCycle called on a list of at least three nodes.
NeverCyclicWitness ==
    /\ call.op = "HasCycle"
    /\ call.flag = FALSE
    /\ Size >= 3

\* C8: InsertAt(v, p) with 0 <= p <= Size succeeds, puts v at index p, keeps
\* the other elements in order and grows Size by one; with p < 0 or p > Size
\* it returns an error; InsertAt(v, 0) on the empty list is Prepend(v).
InsertAtInserts ==
    /\ call.op = "InsertAt"
       => IF 0 <= call.position /\ call.position <= call.preSize
          THEN /\ call.err = NoError
               /\ ToSlice(LL) =
                      WithInserted(call.preSeq, call.data, call.position)
               /\ Size = call.preSize + 1
          ELSE call.err # NoError
    /\ IsEmpty(LL)
       => \A v \in Values :
              /\ InsertAt(LL, v, 0).err = NoError
              /\ InsertAt(LL, v, 0).ll = Prepend(LL, v)

\* An InsertAt strictly inside a list.
InsertAtWitness ==
    /\ call.op = "InsertAt"
    /\ call.err = NoError
    /\ 0 < call.position
    /\ call.position < call.preSize

\* C9 as stated: DeleteAt, Get and Search fail with InvalidPosition when
\* called with -1 and when called with the element count.
BoundaryFailsForAllThree ==
    /\ (call.op \in {"DeleteAt", "Get"}
        /\ call.position \in {-1, call.preSize})
       => call.err = InvalidPosition
    /\ (call.op = "Search" /\ call.data \in {-1, call.preSize})
       => call.err = InvalidPosition

\* C9 amended: DeleteAt and Get fail with InvalidPosition at position -1 and
\* at position count; Search takes a value, never fails, and returns the
\* index of the first occurrence of the value or -1.
BoundaryFailsForDeleteAtAndGet ==
    /\ (call.op \in {"DeleteAt", "Get"}
        /\ call.position \in {-1, call.preSize})
       => call.err = InvalidPosition
    /\ call.op = "Search"
       => /\ call.err = NoError
          /\ call.val = FirstIndexOf(call.preSeq, call.data)

\* A Get at position count on a list of at least two nodes.
BoundaryWitness ==
    /\ call.op = "Get"
    /\ call.position = call.preSize
    /\ call.preSize >= 2
    /\ call.err = InvalidPosition

\* C10: DeleteAt(p) with 0 <= p < Size returns the value at index p with no
\* error, removes exactly that element and reduces Size by one.
DeleteAtDeletes ==
    (call.op = "DeleteAt"
     /\ 0 <= call.position /\ call.position < call.preSize)
    => /\ call.err = NoError
       /\ call.val = call.preSeq[call.position + 1]
       /\ ToSlice(LL) = WithoutIndex(call.preSeq, call.position)
       /\ Size = call.preSize - 1

\* A DeleteAt of the last node of a list of at least three nodes.
DeleteAtWitness ==
    /\ call.op = "DeleteAt"
    /\ call.err = NoError
    /\ call.position = call.preSize - 1
    /\ call.preSize >= 3

\* C11: DeleteByValue(v) returns true exactly when v occurs in the list; when
\* true, exactly the first occurrence of v is removed and Size decreases by
\* one; when false, the values and Size are as they were.
DeleteByValueDeletesFirst ==
    call.op = "DeleteByValue"
    => LET s == call.preSeq
           v == call.data
       IN /\ call.flag <=> (v \in ValuesOf(s))
          /\ IF call.flag
             THEN /\ ToSlice(LL) = WithoutIndex(s, FirstIndexOf(s, v))
                  /\ Size = call.preSize - 1
             ELSE /\ ToSlice(LL) = s
                  /\ Size = call.preSize

\* A DeleteByValue of a value that occurred twice, first after the head.
DeleteByValueWitness ==
    /\ call.op = "DeleteByValue"
    /\ call.flag
    /\ FirstIndexOf(call.preSeq, call.data) >= 1
    /\ call.data \in ValuesOf(ToSlice(LL))

\* C12: after n Append calls with values v1..vn on a new list, Length()
\* returns n and ToSlice() returns <<v1, ..., vn>>; ToSlice leaves the list
\* as it was.
AppendsGiveSequence ==
    /\ call.onlyAppends
       => /\ Length(LL) = Len(call.appended)
          /\ ToSlice(LL) = call.appended
          /\ call.op = "Length" => call.val = Len(call.appended)
          /\ call.op = "ToSlice" => call.slice = call.appended
    /\ call.op = "ToSlice"
       => /\ ToSlice(LL) = call.preSeq
          /\ Size = call.preSize

\* ToSlice called after three or more appends of values that are not all
\* the same.
AppendsWitness ==
    /\ call.onlyAppends
    /\ call.op = "ToSlice"
    /\ Len(call.appended) >= 3
    /\ Cardinality(ValuesOf(call.appended)) >= 2
    /\ call.slice = call.appended

----------------------------------------------------------------------------
\* Sequences the properties of the array routines are stated with.

IsSorted(s) == \A i \in 1..(Len(s) - 1) : s[i] <= s[i + 1]

Occurrences(s, e) == Cardinality({i \in 1..Len(s) : s[i] = e})

IsPermutation(s, t) ==
    /\ Len(s) = Len(t)
    /\ \A e \in ValuesOf(s) \cup ValuesOf(t) :
           Occurrences(s, e) = Occurrences(t, e)

\* x put into the sorted sequence s after every element not greater than x.
RECURSIVE InsertStable(_, _)
InsertStable(s, x) ==
    IF s = <<>> THEN <<x>>
    ELSE IF s[Len(s)] <= x THEN Append(s, x)
    ELSE Append(InsertStable(SubSeq(s, 1, Len(s) - 1), x), s[Len(s)])

\* The stable non-descending sort of s.
StableSort(s) ==
    LET F[i \in 0..Len(s)] ==
            IF i = 0 THEN <<>> ELSE InsertStable(F[i - 1], s[i])
    IN F[Len(s)]

Inversions(s) ==
    Cardinality({p \in (1..Len(s)) \X (1..Len(s)) :
                     p[1] < p[2] /\ s[p[1]] > s[p[2]]})

\* The slice returned and the argument slice have elements in common: they
\* are one slice, and it has an element.
SharesStorage == call.same /\ Len(call.arr) >= 1

\* C13: MergeSort(arr) returns a new sequence that is the stable
\* non-descending sort of arr (a sorted permutation of arr); arr is not
\* modified and the result does not share storage with it, for every arr,
\* the empty and the single-element ones included.
MergeSortReturnsNewSorted ==
    call.op = "MergeSort"
    => /\ IsSorted(call.result)
       /\ IsPermutation(call.result, call.arr)
       /\ call.result = StableSort(call.arr)
       /\ call.arrAfter = call.arr
       /\ ~SharesStorage

\* C14: CountInversions(arr) returns the non-descending sorted permutation
\* of arr and the number of index pairs i < j with arr[i] > arr[j]; equal
\* elements count for nothing and arr is not modified.
CountInversionsCounts ==
    call.op = "CountInversions"
    => /\ IsSorted(call.result)
       /\ IsPermutation(call.result, call.arr)
       /\ call.inversions = Inversions(call.arr)
       /\ call.arrAfter = call.arr
       /\ ~call.same

\* CountInversions of an array with two equal elements and at least two
\* inversions.
CountInversionsWitness ==
    /\ call.op = "CountInversions"
    /\ Len(call.arr) >= 3
    /\ Cardinality(ValuesOf(call.arr)) < Len(call.arr)
    /\ call.inversions >= 2

\* s is a rotation of a non-descending sequence.
IsRotationOfSorted(s) ==
    \E r \in 0..Len(s) :
        IsSorted(SubSeq(s, r + 1, Len(s)) \o SubSeq(s, 1, r))

\* index is a Go index of arr holding target when target occurs in arr, and
\* -1 exactly when it does not.
Finds(arr, target, index) ==
    IF target \in ValuesOf(arr)
    THEN /\ index \in 0..(Len(arr) - 1)
         /\ arr[index + 1] = target
    ELSE index = -1

\* C15: on a non-descending arr, BinarySearchIterative and
\* BinarySearchRecursive return the same result, an index holding target
\* when target occurs and -1 exactly when it does not, after reading at most
\* len(arr) indices, every one of them inside arr.
BinarySearchFinds ==
    (/\ call.op \in {"BinarySearchIterative", "BinarySearchRecursive"}
     /\ IsSorted(call.arr))
    => /\ Finds(call.arr, call.target, call.index)
       /\ call.op = "BinarySearchIterative"
          => call.index = BinarySearchRecursive(call.arr, call.target).index
       /\ call.op = "BinarySearchRecursive"
          => call.index = BinarySearchIterative(call.arr, call.target).index
       /\ Len(call.reads) <= Len(call.arr)
       /\ \A i \in 1..Len(call.reads) :
              call.reads[i] \in 0..(Len(call.arr) - 1)

\* An iterative search that found a target occurring twice in a sorted array
\* of at least four elements, after more than one read.
BinarySearchWitness ==
    /\ call.op = "BinarySearchIterative"
    /\ IsSorted(call.arr)
    /\ Len(call.arr) >= 4
    /\ Occurrences(call.arr, call.target) >= 2
    /\ call.index >= 0
    /\ Len(call.reads) >= 2

\* C16: on every rotation of a non-descending sequence, SearchInRotatedArray
\* returns an index holding target when target occurs in arr, and -1 exactly
\* when it does not.
RotatedSearchFinds ==
    (call.op = "SearchInRotatedArray" /\ IsRotationOfSorted(call.arr))
    => Finds(call.arr, call.target, call.index)
====
